---- MODULE Spec2Model ----
(***************************************************************************)
(* ResExt: context chains on errors.                                       *)
(*                                                                         *)
(* Two of the crates of the repository are modelled here:                  *)
(*   - the trait-based crate (src/src): ErrCtx<E> { msg: Vec<u8>, source } *)
(*     and the ResExt trait implemented for Result<T, E> and for           *)
(*     Result<T, ErrCtx<E>>, with its helpers that end the process and     *)
(*     the macros panic_if! and return_err_if!;                            *)
(*   - the code generated by the #[resext] attribute macro                 *)
(*     (src/resext-macro/src/lib.rs): a wrapper struct with a fixed-size   *)
(*     byte buffer and a 16-bit position, configured by attribute options. *)
(* The buffer and the context methods of the declarative macro ResExt!     *)
(* (src/resext/src/enum_macro.rs) are modelled next to them.               *)
(*                                                                         *)
(* Strings are sequences of bytes (0..255).  Inputs are drawn as sequences *)
(* of characters, each character being its UTF-8 encoding, and turned into *)
(* bytes by as_bytes.                                                      *)
(***************************************************************************)
EXTENDS Integers, Sequences, FiniteSets, TLC

VARIABLES
    res,      \* trait crate: the Result value the chain is applied to
    hist,     \* trait crate: how res was built and the contexts added since
    shown,    \* trait crate: the last Display output of the ErrCtx
    proc,     \* trait crate: the process (exit, stderr, closures run)
    attrs,    \* proc macro: the attribute arguments given to #[resext]
    build,    \* proc macro: how format_args! was compiled (see fmt_pieces)
    mres,     \* proc macro: the Result value the chain is applied to
    mhist,    \* proc macro: how mres was built and the contexts added since
    mshown,   \* proc macro: the last Display output of the wrapper
    decl      \* declarative macro: buffer size, result, calls made on it

vars == <<res, hist, shown, proc, attrs, build, mres, mhist, mshown, decl>>

traitVars == <<res, hist, shown, proc>>
macroVars == <<attrs, build, mres, mhist, mshown>>
declVars  == <<decl>>

----------------------------------------------------------------------------
(* Bounds *)

\* number of context calls in one chain
MaxCtx == 3

----------------------------------------------------------------------------
(* Bytes and strings *)

Min(a, b) == IF a <= b THEN a ELSE b
Max(a, b) == IF a >= b THEN a ELSE b

\* str::as_bytes of a string given as a sequence of characters
RECURSIVE as_bytes(_)
as_bytes(chars) ==
    IF chars = <<>> THEN <<>> ELSE Head(chars) \o as_bytes(Tail(chars))

\* ASCII literals used by the code
NL        == <<10>>                                   \* "\n"
DashDelim == <<10, 45, 32>>                           \* b"\n- "
CausedBy  == <<10, 67, 97, 117, 115, 101, 100, 32, 98, 121, 58, 32>>  \* "\nCaused by: "

\* characters of the inputs
cA    == <<97>>                 \* a
cB    == <<98>>                 \* b
cNL   == <<10>>                 \* \n
cDash == <<45>>                 \* -
cSp   == <<32>>                 \* space
cEacute == <<195, 169>>         \* U+00E9, 2 bytes
cEuro   == <<226, 130, 172>>    \* U+20AC, 3 bytes

IsPrefix(p, s) == Len(p) <= Len(s) /\ SubSeq(s, 1, Len(p)) = p
IsSuffix(p, s) == Len(p) <= Len(s) /\ SubSeq(s, Len(s) - Len(p) + 1, Len(s)) = p
OccursAt(s, p, i) == i + Len(p) - 1 <= Len(s) /\ SubSeq(s, i, i + Len(p) - 1) = p
Contains(s, p) == \E i \in 1..(Len(s) + 1) : OccursAt(s, p, i)

\* str::matches(p).count(): non-overlapping occurrences, scanning from the left
RECURSIVE MatchCountFrom(_, _, _)
MatchCountFrom(s, p, i) ==
    IF i + Len(p) - 1 > Len(s) THEN 0
    ELSE IF OccursAt(s, p, i) THEN 1 + MatchCountFrom(s, p, i + Len(p))
    ELSE MatchCountFrom(s, p, i + 1)
MatchCount(s, p) == MatchCountFrom(s, p, 1)

\* m1 + sep + m2 + ... + sep + mn
RECURSIVE JoinWith(_, _)
JoinWith(ms, sep) ==
    IF ms = <<>> THEN <<>>
    ELSE IF Len(ms) = 1 THEN ms[1]
    ELSE ms[1] \o sep \o JoinWith(Tail(ms), sep)

----------------------------------------------------------------------------
(* Trait-based crate: Vec<u8> *)

\* a Vec<u8>: its bytes and its capacity
Vec(bytes, cap) == [bytes |-> bytes, cap |-> cap]

\* <[u8]>::to_vec: an exact-size copy
to_vec(bytes) == Vec(bytes, Len(bytes))

\* Vec::reserve_exact(additional)
reserve_exact(v, additional) ==
    IF v.cap - Len(v.bytes) >= additional THEN v
    ELSE Vec(v.bytes, Len(v.bytes) + additional)

\* Vec::extend_from_slice: amortized growth, then append
extend_from_slice_vec(v, bytes) ==
    LET need == Len(v.bytes) + Len(bytes)
        cap2 == IF v.cap - Len(v.bytes) >= Len(bytes) THEN v.cap
                ELSE Max(8, Max(2 * v.cap, need))
    IN  Vec(v.bytes \o bytes, cap2)

----------------------------------------------------------------------------
(* Trait-based crate: source errors and ErrCtx *)

\* the source errors of the model and their Display
Errors == {"io", "host"}
ErrDisplay(e) ==
    IF e = "io" THEN <<73, 47, 79>>          \* "I/O"
    ELSE <<104, 111, 115, 116>>              \* "host"

Values == {"v", "w"}

OkRes(v)          == [kind |-> "Ok", val |-> v]
ErrRes(e)         == [kind |-> "Err", source |-> e]
CtxRes(msg, e)    == [kind |-> "ErrCtx", msg |-> msg, source |-> e]

\* ErrCtx::new(source, msg): takes the Vec as it is
ErrCtx_new(source, msg) == CtxRes(msg, source)

\* From<E> for ErrCtx<E>
ErrCtx_from(value) == CtxRes(Vec(<<>>, 0), value)

\* ErrCtx::msg()
ErrCtx_msg(r) == r.msg.bytes

\* Error::source for ErrCtx
ErrCtx_source(r) == r.source

\* Display for ErrCtx without the test for an empty message
ErrCtx_fmt_always_caused(r) ==
    r.msg.bytes \o CausedBy \o ErrDisplay(r.source) \o NL

\* Display for ErrCtx
ErrCtx_fmt(r) ==
    IF r.msg.bytes = <<>> THEN ErrDisplay(r.source)
    ELSE r.msg.bytes \o CausedBy \o ErrDisplay(r.source) \o NL

\* context on Result<T, E> that writes the delimiter before the first message
new_context_impl_delim_first(r, msg) ==
    IF r.kind = "Ok" THEN r
    ELSE CtxRes(to_vec(DashDelim \o msg), r.source)

\* context on Result<T, E>
new_context_impl(r, msg) ==
    IF r.kind = "Ok" THEN r
    ELSE CtxRes(to_vec(msg), r.source)

\* context on Result<T, ErrCtx<E>> that puts the new message in front
extra_ctx_impl_prepend(r, msg) ==
    IF r.kind = "Ok" THEN r
    ELSE CtxRes(to_vec(msg \o DashDelim \o r.msg.bytes), r.source)

\* context on Result<T, ErrCtx<E>>
extra_ctx_impl(r, msg) ==
    IF r.kind = "Ok" THEN r
    ELSE LET bytes == msg
             len == Len(bytes)
             cap == r.msg.cap
             v1  == IF cap <= 3 + len THEN reserve_exact(r.msg, 3 + len - cap) ELSE r.msg
             v2  == extend_from_slice_vec(v1, DashDelim)
             v3  == extend_from_slice_vec(v2, bytes)
         IN  CtxRes(v3, r.source)

\* a with_context that runs its closure before it looks at the result
with_context_impl_calls_eager(r) == 1

\* the number of times with_context_impl calls its closure
with_context_impl_calls(r) == IF r.kind = "Ok" THEN 0 ELSE 1

\* the number of times extra_with_ctx_impl calls its closure
extra_with_ctx_impl_calls(r) == IF r.kind = "Ok" THEN 0 ELSE 1

\* with_context on Result<T, E>: the closure runs only on Err
with_context_impl(r, closure) ==
    IF r.kind = "Ok" THEN r
    ELSE CtxRes(to_vec(closure), r.source)

\* a with_context on Result<T, ErrCtx<E>> that joins with "\n" alone
extra_with_ctx_impl_newline(r, closure) ==
    IF r.kind = "Ok" THEN r
    ELSE LET bytes == closure
             len == Len(bytes)
             cap == r.msg.cap
             v1  == IF cap <= 3 + len THEN reserve_exact(r.msg, 3 + len - cap) ELSE r.msg
             v2  == extend_from_slice_vec(v1, NL)
             v3  == extend_from_slice_vec(v2, bytes)
         IN  CtxRes(v3, r.source)

\* with_context on Result<T, ErrCtx<E>>
extra_with_ctx_impl(r, closure) ==
    IF r.kind = "Ok" THEN r
    ELSE LET bytes == closure
             len == Len(bytes)
             cap == r.msg.cap
             v1  == IF cap <= 3 + len THEN reserve_exact(r.msg, 3 + len - cap) ELSE r.msg
             v2  == extend_from_slice_vec(v1, DashDelim)
             v3  == extend_from_slice_vec(v2, bytes)
         IN  CtxRes(v3, r.source)

\* byte_context on Result<T, E>: the Vec is taken as it is
byte_context_impl(r, bytes) ==
    IF r.kind = "Ok" THEN r
    ELSE CtxRes(bytes, r.source)

\* a byte_context that puts the first error of the model in place of the source
extra_byte_context_impl_new_source(r, bytes) ==
    IF r.kind = "Ok" THEN r
    ELSE LET len == Len(bytes)
             cap == r.msg.cap
             v1  == IF cap <= 3 + len THEN reserve_exact(r.msg, 3 + len - cap) ELSE r.msg
             v2  == extend_from_slice_vec(v1, DashDelim)
             v3  == extend_from_slice_vec(v2, bytes)
         IN  CtxRes(v3, "io")

\* byte_context on Result<T, ErrCtx<E>>
extra_byte_context_impl(r, bytes) ==
    IF r.kind = "Ok" THEN r
    ELSE LET len == Len(bytes)
             cap == r.msg.cap
             v1  == IF cap <= 3 + len THEN reserve_exact(r.msg, 3 + len - cap) ELSE r.msg
             v2  == extend_from_slice_vec(v1, DashDelim)
             v3  == extend_from_slice_vec(v2, bytes)
         IN  CtxRes(v3, r.source)

\* what a call does to the process: it returns a value, ends the process
\* with an exit code, or (a macro used as a statement) lets it run on; with
\* the bytes it writes to stderr and the number of closures and message
\* expressions it evaluates.  ret is read only in state "returned" and code
\* only in state "exited".
Returns(v, evals) ==
    [state |-> "returned", ret |-> v, code |-> 0, stderr |-> <<>>, evals |-> evals]
Exits(code, stderr, evals) ==
    [state |-> "exited", ret |-> "", code |-> code, stderr |-> stderr, evals |-> evals]
Continues ==
    [state |-> "running", ret |-> "", code |-> 0, stderr |-> <<>>, evals |-> 0]

\* eprintln!: the formatted text and a line break
eprintln(text) == text \o NL

\* Display of the error inside an Err: of E itself for Result<T, E>, of the
\* ErrCtx for Result<T, ErrCtx<E>>
err_fmt(r) == IF r.kind = "ErrCtx" THEN ErrCtx_fmt(r) ELSE ErrDisplay(r.source)

\* an or_exit that always exits with code 1
or_exit_impl_code_one(r, code) ==
    IF r.kind = "Ok" THEN Returns(r.val, 0)
    ELSE Exits(1, <<>>, 0)

\* or_exit
or_exit_impl(r, code) ==
    IF r.kind = "Ok" THEN Returns(r.val, 0)
    ELSE Exits(code, <<>>, 0)

\* a better_expect that prints the error whatever verbose is
better_expect_impl_always_verbose(r, msg, code, verbose) ==
    IF r.kind = "Ok" THEN Returns(r.val, 0)
    ELSE Exits(code, eprintln(msg \o <<58, 32>> \o err_fmt(r)), 0)

\* better_expect: eprintln!("{}: {}", msg, e) or eprintln!("{}", msg)
better_expect_impl(r, msg, code, verbose) ==
    IF r.kind = "Ok" THEN Returns(r.val, 0)
    ELSE IF verbose THEN Exits(code, eprintln(msg \o <<58, 32>> \o err_fmt(r)), 0)
    ELSE Exits(code, eprintln(msg), 0)

\* dyn_expect: the closure is called in the arm that prints
dyn_expect_impl(r, closure, code, verbose) ==
    IF r.kind = "Ok" THEN Returns(r.val, 0)
    ELSE IF verbose THEN Exits(code, eprintln(closure \o <<58, 32>> \o err_fmt(r)), 1)
    ELSE Exits(code, eprintln(closure), 1)

\* a panic_if! that evaluates its message before the condition
panic_if_eager_msg(condition, msg, code) ==
    IF condition THEN Exits(code, eprintln(msg), 1)
    ELSE [Continues EXCEPT !.evals = 1]

\* panic_if!(condition, msg, code) and panic_if!(condition, || msg, code):
\* both arms expand to the same block
panic_if(condition, msg, code) ==
    IF condition THEN Exits(code, eprintln(msg), 1)
    ELSE Continues

\* the value of Ok(())
Unit == "()"

\* a return_err_if! that drops the message
return_err_if_no_msg(condition, msg, source) ==
    IF condition THEN ErrCtx_from(source)
    ELSE OkRes(Unit)

\* return_err_if!(condition, msg, source) and
\* return_err_if!(condition, || msg, source): both arms expand to the same
\* expression; msg is the text the message expression evaluates to
return_err_if(condition, msg, source) ==
    IF condition THEN ErrCtx_new(source, to_vec(msg))
    ELSE OkRes(Unit)

\* inputs of the trait crate: texts as sequences of characters
TraitTexts ==
    { <<>>, <<cA>>, <<cNL>>, <<cDash, cSp>>, <<cNL, cDash>>, <<cEacute>>,
      <<cNL, cDash, cSp>> }

NoShow == [valid |-> FALSE, text |-> <<>>]

\* how a result was built: from a plain Result<T, E> ("raw"), from
\* ErrCtx::new ("new") or from the From conversion ("from"); whether its
\* static type is Result<T, ErrCtx<E>> (wrapped) or Result<T, E>; and the
\* messages of the context calls made on it since, in call order
Hist(origin, wrapped, added) ==
    [origin |-> origin, wrapped |-> wrapped, added |-> added]

\* the declarative macro is not in use
DeclIdle ==
    decl = [size |-> 0, res |-> [kind |-> "none"], added |-> 0, writes |-> <<>>]

MacroIdle ==
    /\ attrs = <<>>
    /\ build = "none"
    /\ mres = [kind |-> "none"]
    /\ mhist = [origin |-> "none", wrapped |-> FALSE, added |-> <<>>, writes |-> <<>>]
    /\ mshown = NoShow

\* a process that has started: nothing printed, no closure run, no helper or
\* macro called
Proc0 ==
    [state |-> "running", ret |-> "", code |-> 0, stderr |-> <<>>, evals |-> 0,
     call |-> [op |-> "none"]]

InitTrait ==
    /\ \/ \E v \in Values : res = OkRes(v) /\ hist = Hist("raw", FALSE, <<>>)
       \/ \E v \in Values : res = OkRes(v) /\ hist = Hist("raw", TRUE, <<>>)
       \/ \E e \in Errors : res = ErrRes(e) /\ hist = Hist("raw", FALSE, <<>>)
       \/ \E e \in Errors, t \in TraitTexts :
            /\ res = ErrCtx_new(e, to_vec(as_bytes(t)))
            /\ hist = Hist("new", TRUE, <<>>)
       \/ \E e \in Errors :
            /\ res = ErrCtx_from(e)
            /\ hist = Hist("from", TRUE, <<>>)
    /\ shown = NoShow
    /\ proc = Proc0
    /\ MacroIdle
    /\ DeclIdle

\* the result is still in hand: no helper has taken it and the process runs
Running == proc.state = "running"

\* the history after one more context call
Added(h, bytes) ==
    Hist(h.origin, TRUE, Append(h.added, bytes))

\* r.context(msg)
Context(t) ==
    /\ Running
    /\ Len(hist.added) < MaxCtx
    /\ res' = IF hist.wrapped THEN extra_ctx_impl(res, as_bytes(t))
              ELSE new_context_impl(res, as_bytes(t))
    /\ hist' = Added(hist, as_bytes(t))
    /\ shown' = NoShow
    /\ UNCHANGED proc
    /\ UNCHANGED <<macroVars, declVars>>

\* r.with_context(|| text)
WithContext(t) ==
    /\ Running
    /\ Len(hist.added) < MaxCtx
    /\ res' = IF hist.wrapped THEN extra_with_ctx_impl(res, as_bytes(t))
              ELSE with_context_impl(res, as_bytes(t))
    /\ hist' = Added(hist, as_bytes(t))
    /\ shown' = NoShow
    /\ proc' = [proc EXCEPT !.evals = @ + (IF hist.wrapped
                                            THEN extra_with_ctx_impl_calls(res)
                                            ELSE with_context_impl_calls(res))]
    /\ UNCHANGED <<macroVars, declVars>>

\* r.byte_context(bytes)
ByteContext(t) ==
    /\ Running
    /\ Len(hist.added) < MaxCtx
    /\ res' = IF hist.wrapped THEN extra_byte_context_impl(res, as_bytes(t))
              ELSE byte_context_impl(res, to_vec(as_bytes(t)))
    /\ hist' = Added(hist, as_bytes(t))
    /\ shown' = NoShow
    /\ UNCHANGED proc
    /\ UNCHANGED <<macroVars, declVars>>

\* format!("{}", err) of the ErrCtx inside an Err
DisplayCtx ==
    /\ Running
    /\ res.kind = "ErrCtx"
    /\ ~shown.valid
    /\ shown' = [valid |-> TRUE, text |-> ErrCtx_fmt(res)]
    /\ UNCHANGED <<res, hist>>
    /\ UNCHANGED proc
    /\ UNCHANGED <<macroVars, declVars>>

NextTrait ==
    \/ \E t \in TraitTexts : Context(t)
    \/ \E t \in TraitTexts : WithContext(t)
    \/ \E t \in TraitTexts : ByteContext(t)
    \/ DisplayCtx

SpecTrait == InitTrait /\ [][NextTrait]_vars

----------------------------------------------------------------------------
(* The trait-based crate: the helpers that end the process, and the macros *)

\* exit codes and messages given to the helpers and macros
ExitCodes == {0, 1}
HelperTexts == { <<cA>>, <<cEacute, cB>> }

\* the process after a call: the call is recorded with its arguments, its
\* output is added to stderr
After(call, o) ==
    [state |-> o.state, ret |-> o.ret, code |-> o.code,
     stderr |-> proc.stderr \o o.stderr, evals |-> proc.evals + o.evals,
     call |-> call]

\* r.or_exit(code); res keeps the value the helper was called on
OrExit(code) ==
    /\ Running
    /\ proc' = After([op |-> "or_exit", code |-> code], or_exit_impl(res, code))
    /\ UNCHANGED <<res, hist, shown>>
    /\ UNCHANGED <<macroVars, declVars>>

\* r.better_expect(msg, code, verbose)
BetterExpect(t, code, verbose) ==
    /\ Running
    /\ proc' = After([op |-> "better_expect", msg |-> as_bytes(t), code |-> code,
                      verbose |-> verbose],
                     better_expect_impl(res, as_bytes(t), code, verbose))
    /\ UNCHANGED <<res, hist, shown>>
    /\ UNCHANGED <<macroVars, declVars>>

\* r.dyn_expect(|| text, code, verbose)
DynExpect(t, code, verbose) ==
    /\ Running
    /\ proc' = After([op |-> "dyn_expect", msg |-> as_bytes(t), code |-> code,
                      verbose |-> verbose],
                     dyn_expect_impl(res, as_bytes(t), code, verbose))
    /\ UNCHANGED <<res, hist, shown>>
    /\ UNCHANGED <<macroVars, declVars>>

\* panic_if!(condition, msg, code) as a statement
PanicIf(condition, t, code) ==
    /\ Running
    /\ proc' = After([op |-> "panic_if", condition |-> condition,
                      msg |-> as_bytes(t), code |-> code],
                     panic_if(condition, as_bytes(t), code))
    /\ UNCHANGED <<res, hist, shown>>
    /\ UNCHANGED <<macroVars, declVars>>

\* let res = return_err_if!(condition, msg, source), once in a run: the
\* result of the macro takes the place of the one in hand
ReturnErrIf(condition, t, e) ==
    /\ Running
    /\ hist.origin # "return_err_if"
    /\ res' = return_err_if(condition, as_bytes(t), e)
    /\ hist' = Hist("return_err_if", TRUE, <<>>)
    /\ shown' = NoShow
    /\ proc' = [proc EXCEPT !.call = [op |-> "return_err_if",
                                      condition |-> condition,
                                      msg |-> as_bytes(t), source |-> e]]
    /\ UNCHANGED <<macroVars, declVars>>

NextExit ==
    \/ \E t \in HelperTexts : Context(t)
    \/ \E c \in ExitCodes : OrExit(c)
    \/ \E t \in HelperTexts, c \in ExitCodes, v \in BOOLEAN : BetterExpect(t, c, v)
    \/ \E t \in HelperTexts, c \in ExitCodes, v \in BOOLEAN : DynExpect(t, c, v)
    \/ \E b \in BOOLEAN, t \in HelperTexts, c \in ExitCodes : PanicIf(b, t, c)
    \/ \E b \in BOOLEAN, t \in HelperTexts, e \in Errors : ReturnErrIf(b, t, e)

SpecExit == InitTrait /\ [][NextExit]_vars

----------------------------------------------------------------------------
(* #[resext]: the attribute arguments *)

\* string literals of the macro
DefaultDelimiter    == <<32, 45, 32>>                       \* " - "
DefaultSourcePrefix == <<69, 114, 114, 111, 114, 58, 32>>   \* "Error: "
DefaultAlias        == <<82, 101, 115>>                     \* Res
ErrSuffix           == <<69, 114, 114>>                     \* Err
BufSuffix           == <<66, 117, 102>>                     \* Buf

\* buf_size when the attribute gives none
DefaultBufSize == 64

\* u16 arithmetic of curr_pos
U16 == 65536

None    == [some |-> FALSE, v |-> <<>>]
Some(x) == [some |-> TRUE, v |-> x]
unwrap_or(o, d) == IF o.some THEN o.v ELSE d

Arg(k, v) == [key |-> k, val |-> v]

\* ResExtArgs before any argument is read
ResExtArgs0 ==
    [prefix |-> None, suffix |-> None, msg_prefix |-> None, msg_suffix |-> None,
     delimiter |-> None, source_prefix |-> None, include_variant |-> FALSE,
     alias |-> None, buf_size |-> None]

\* a parse in which every argument starts again from the defaults
parse_key_resets(args, a) ==
    IF a.key = "prefix" THEN [ok |-> TRUE, args |-> [ResExtArgs0 EXCEPT !.prefix = Some(a.val)]]
    ELSE IF a.key = "suffix" THEN [ok |-> TRUE, args |-> [ResExtArgs0 EXCEPT !.suffix = Some(a.val)]]
    ELSE IF a.key = "msg_prefix" THEN [ok |-> TRUE, args |-> [ResExtArgs0 EXCEPT !.msg_prefix = Some(a.val)]]
    ELSE IF a.key = "msg_suffix" THEN [ok |-> TRUE, args |-> [ResExtArgs0 EXCEPT !.msg_suffix = Some(a.val)]]
    ELSE IF a.key = "delimiter" THEN [ok |-> TRUE, args |-> [ResExtArgs0 EXCEPT !.delimiter = Some(a.val)]]
    ELSE IF a.key = "source_prefix" THEN [ok |-> TRUE, args |-> [ResExtArgs0 EXCEPT !.source_prefix = Some(a.val)]]
    ELSE IF a.key = "include_variant" THEN [ok |-> TRUE, args |-> [ResExtArgs0 EXCEPT !.include_variant = a.val]]
    ELSE IF a.key = "alias" THEN [ok |-> TRUE, args |-> [ResExtArgs0 EXCEPT !.alias = Some(a.val)]]
    ELSE IF a.key = "buf_size" THEN [ok |-> TRUE, args |-> [ResExtArgs0 EXCEPT !.buf_size = Some(a.val)]]
    ELSE [ok |-> FALSE, args |-> args]    \* unknown argument: a compile error

\* one turn of the loop of ResExtArgs::parse: the match on the key
parse_key(args, a) ==
    IF a.key = "prefix" THEN [ok |-> TRUE, args |-> [args EXCEPT !.prefix = Some(a.val)]]
    ELSE IF a.key = "suffix" THEN [ok |-> TRUE, args |-> [args EXCEPT !.suffix = Some(a.val)]]
    ELSE IF a.key = "msg_prefix" THEN [ok |-> TRUE, args |-> [args EXCEPT !.msg_prefix = Some(a.val)]]
    ELSE IF a.key = "msg_suffix" THEN [ok |-> TRUE, args |-> [args EXCEPT !.msg_suffix = Some(a.val)]]
    ELSE IF a.key = "delimiter" THEN [ok |-> TRUE, args |-> [args EXCEPT !.delimiter = Some(a.val)]]
    ELSE IF a.key = "source_prefix" THEN [ok |-> TRUE, args |-> [args EXCEPT !.source_prefix = Some(a.val)]]
    ELSE IF a.key = "include_variant" THEN [ok |-> TRUE, args |-> [args EXCEPT !.include_variant = a.val]]
    ELSE IF a.key = "alias" THEN [ok |-> TRUE, args |-> [args EXCEPT !.alias = Some(a.val)]]
    ELSE IF a.key = "buf_size" THEN [ok |-> TRUE, args |-> [args EXCEPT !.buf_size = Some(a.val)]]
    ELSE [ok |-> FALSE, args |-> args]    \* unknown argument: a compile error

\* ResExtArgs::parse: the arguments are read in order, the first unknown key
\* ends the parse with an error
RECURSIVE parse_from(_, _)
parse_from(args, rest) ==
    IF rest = <<>> THEN [ok |-> TRUE, args |-> args]
    ELSE LET r == parse_key(args, Head(rest))
         IN  IF r.ok THEN parse_from(r.args, Tail(rest)) ELSE r

ResExtArgs_parse(input) == parse_from(ResExtArgs0, input)

\* resext(attr, item): the options the generated code is built with
resext(attr) ==
    LET p     == ResExtArgs_parse(attr)
        args  == p.args
        alias == unwrap_or(args.alias, DefaultAlias)
    IN  [ok              |-> p.ok,
         alias           |-> alias,
         struct_name     |-> alias \o ErrSuffix,
         buf_name        |-> alias \o BufSuffix,
         include_variant |-> args.include_variant,
         prefix          |-> unwrap_or(args.prefix, <<>>),
         suffix          |-> unwrap_or(args.suffix, <<>>),
         msg_prefix      |-> unwrap_or(args.msg_prefix, <<>>),
         msg_suffix      |-> unwrap_or(args.msg_suffix, <<>>),
         delimiter       |-> unwrap_or(args.delimiter, DefaultDelimiter),
         source_prefix   |-> unwrap_or(args.source_prefix, DefaultSourcePrefix),
         buf_size        |-> unwrap_or(args.buf_size, DefaultBufSize)]

\* the options of the enum under expansion
Cfg == resext(attrs)

----------------------------------------------------------------------------
(* #[resext]: the generated buffer *)

\* <name>Buf::new
buf_new(size) == [curr_pos |-> 0, buf |-> [i \in 1..size |-> 0]]

\* <name>Buf::get_slice
get_slice(b) == SubSeq(b.buf, 1, b.curr_pos)

\* buf[pos..pos + to_copy].copy_from_slice(&bytes[..to_copy]); curr_pos += to_copy as u16
copy_in(b, bytes, to_copy) ==
    LET pos == b.curr_pos
    IN  [curr_pos |-> (pos + (to_copy % U16)) % U16,
         buf      |-> SubSeq(b.buf, 1, pos) \o SubSeq(bytes, 1, to_copy)
                          \o SubSeq(b.buf, pos + to_copy + 1, Len(b.buf))]

\* an extend_from_slice that copies the whole slice, whatever room is left
extend_from_slice_whole(b, size, bytes) ==
    copy_in(b, bytes, Len(bytes))

\* <name>Buf::extend_from_slice
extend_from_slice(b, size, bytes) ==
    LET pos     == b.curr_pos
        cap     == size - pos
        to_copy == Min(cap, Len(bytes))
    IN  copy_in(b, bytes, to_copy)

\* curr_pos += to_copy as u16 leaves the range of u16: a build with overflow
\* checks panics on the addition, one without them wraps (as copy_in does)
add_overflows(b, to_copy) == b.curr_pos + (to_copy % U16) >= U16

\* the addition of an extend_from_slice call overflows
extend_overflows(b, size, bytes) ==
    add_overflows(b, Min(size - b.curr_pos, Len(bytes)))

\* bytes[..limit].iter().rposition(|&b| (b & 0xC0) != 0x80), 0-based; -1 is None
rposition(bytes, limit) ==
    LET starts == {i \in 0..(limit - 1) : ~(bytes[i + 1] >= 128 /\ bytes[i + 1] <= 191)}
    IN  IF starts = {} THEN -1
        ELSE CHOOSE i \in starts : \A j \in starts : j <= i

\* the match on the first byte of the last character
char_width(byte) ==
    IF byte <= 127 THEN 1
    ELSE IF byte >= 192 /\ byte <= 223 THEN 2
    ELSE IF byte >= 224 /\ byte <= 239 THEN 3
    ELSE IF byte >= 240 /\ byte <= 247 THEN 4
    ELSE 1

\* write_str that cuts at the capacity, wherever that falls
write_to_copy_bytewise(b, size, bytes) ==
    Min(Len(bytes), size - b.curr_pos)

\* the number of bytes write_str copies
write_to_copy(b, size, bytes) ==
    LET pos   == b.curr_pos
        cap   == size - pos
        limit == Min(Len(bytes), cap)
        start_of_last_char == rposition(bytes, limit)
    IN  IF start_of_last_char = -1 THEN 0
        ELSE LET width == char_width(bytes[start_of_last_char + 1])
             IN  IF start_of_last_char + width <= limit
                 THEN start_of_last_char + width
                 ELSE start_of_last_char

\* core::fmt::Write for <name>Buf
write_str(b, size, s) == copy_in(b, s, write_to_copy(b, size, s))

\* write!(buf, ...): one write_str for each piece of the format, in order
RECURSIVE write_fmt(_, _, _)
write_fmt(b, size, pieces) ==
    IF pieces = <<>> THEN b
    ELSE write_fmt(write_str(b, size, Head(pieces)), size, Tail(pieces))

----------------------------------------------------------------------------
(* #[resext]: the enum and the generated wrapper *)

\* the enum the attribute is put on: the one of the macro's tests with a unit
\* variant added,
\*   enum ErrTypes { HttpResponse(usize), Utf8 { error: core::str::Utf8Error },
\*                   Timeout }
EnumVal(variant, kind, field, inner) ==
    [variant |-> variant, kind |-> kind, field |-> field, inner |-> inner]

nHttpResponse == <<72, 116, 116, 112, 82, 101, 115, 112, 111, 110, 115, 101>>
nUtf8         == <<85, 116, 102, 56>>
nTimeout      == <<84, 105, 109, 101, 111, 117, 116>>
nError        == <<101, 114, 114, 111, 114>>
ColonSp       == <<58, 32>>                        \* ": "

\* the errors a Result<T, E> of the model fails with, and their Display
RawErrs ==
    { [ty |-> "usize", disp |-> <<52, 48, 52>>],        \* 404
      [ty |-> "Utf8Error",                              \* invalid utf-8 sequence of 1 bytes from index 1
       disp |-> <<105, 110, 118, 97, 108, 105, 100, 32, 117, 116, 102, 45, 56, 32,
                  115, 101, 113, 117, 101, 110, 99, 101, 32, 111, 102, 32, 49, 32,
                  98, 121, 116, 101, 115, 32, 102, 114, 111, 109, 32, 105, 110,
                  100, 101, 120, 32, 49>>] }

\* From<field type> for the enum
enum_from(e) ==
    IF e.ty = "usize" THEN EnumVal(nHttpResponse, "unnamed", <<>>, e.disp)
    ELSE EnumVal(nUtf8, "named", nError, e.disp)

\* a value of the unit variant
UnitVal == EnumVal(nTimeout, "unit", <<>>, <<>>)

\* Display for the enum that never names the variant of a variant with a field
enum_fmt_no_variant(cfg, src) ==
    IF src.kind = "unnamed" THEN src.inner
    ELSE IF src.kind = "named" THEN src.inner
    ELSE src.variant

\* Display for the enum: display_match_arms
enum_fmt(cfg, src) ==
    IF src.kind = "unnamed"
    THEN IF cfg.include_variant THEN src.variant \o ColonSp \o src.inner ELSE src.inner
    ELSE IF src.kind = "named"
    THEN IF cfg.include_variant
         THEN src.variant \o ColonSp \o src.field \o ColonSp \o src.inner
         ELSE src.inner
    ELSE src.variant

MOk(v)          == [kind |-> "Ok", val |-> v]
MErr(e)         == [kind |-> "Err", source |-> e]
MWrap(msg, src) == [kind |-> "Wrap", msg |-> msg, source |-> src]
\* a panic unwinds out of the call: no result is left
MPanic          == [kind |-> "Panic"]

\* <alias>Err::new(msg, source)
wrapper_new(cfg, msg, source) ==
    MWrap(write_str(buf_new(cfg.buf_size), cfg.buf_size, msg), enum_from(source))

\* From<field type> for <alias>Err
wrapper_from(cfg, value) == MWrap(buf_new(cfg.buf_size), enum_from(value))

\* From<the enum> for <alias>Err
wrapper_from_enum(cfg, value) == MWrap(buf_new(cfg.buf_size), value)

\* Display without the test for an empty buffer
wrapper_fmt_always_ctx(cfg, w) ==
    cfg.prefix \o get_slice(w.msg) \o NL \o cfg.source_prefix
        \o enum_fmt(cfg, w.source) \o cfg.suffix

\* Display that puts no line break between the context and the source
wrapper_fmt_no_newline(cfg, w) ==
    IF w.msg.curr_pos = 0
    THEN cfg.source_prefix \o enum_fmt(cfg, w.source) \o cfg.suffix
    ELSE cfg.prefix \o get_slice(w.msg) \o cfg.source_prefix
             \o enum_fmt(cfg, w.source) \o cfg.suffix

\* Display for <alias>Err
wrapper_fmt(cfg, w) ==
    IF w.msg.curr_pos = 0
    THEN cfg.source_prefix \o enum_fmt(cfg, w.source) \o cfg.suffix
    ELSE cfg.prefix \o get_slice(w.msg) \o NL \o cfg.source_prefix
             \o enum_fmt(cfg, w.source) \o cfg.suffix

\* the pieces with the line break after the delimiter
fmt_pieces_delimiter_first(inline, cfg, msg_pieces) ==
    <<cfg.delimiter, NL, cfg.msg_prefix>> \o msg_pieces \o <<cfg.msg_suffix>>

\* the write_str calls of write!(&mut err, "\n{}{}{}{}", delimiter, msg_prefix,
\* msg, msg_suffix).  The three options are string literals in the generated
\* code: a compiler that folds literal arguments into the format string
\* writes "\n" + delimiter + msg_prefix in one call, one that does not writes
\* them in three.
fmt_pieces(inline, cfg, msg_pieces) ==
    IF inline = "inline"
    THEN <<NL \o cfg.delimiter \o cfg.msg_prefix>> \o msg_pieces \o <<cfg.msg_suffix>>
    ELSE <<NL, cfg.delimiter, cfg.msg_prefix>> \o msg_pieces \o <<cfg.msg_suffix>>

\* the pieces the context methods of Result<T, <alias>Err> write
ctx_pieces(inline, cfg, w, msg_pieces) ==
    IF w.msg.curr_pos = 0 THEN msg_pieces
    ELSE fmt_pieces(inline, cfg, msg_pieces)

\* context for Result<T, <alias>Err>
context_wrapped(inline, cfg, r, msg) ==
    IF r.kind = "Ok" THEN r
    ELSE MWrap(write_fmt(r.msg, cfg.buf_size, ctx_pieces(inline, cfg, r, <<msg>>)),
               r.source)

\* a with_context that hands back the first value of the model on Ok
with_context_wrapped_ok_default(inline, cfg, r, args) ==
    IF r.kind = "Ok" THEN MOk("v")
    ELSE MWrap(write_fmt(r.msg, cfg.buf_size, ctx_pieces(inline, cfg, r, args)),
               r.source)

\* with_context for Result<T, <alias>Err>: args is the sequence of the pieces
\* of the core::fmt::Arguments
with_context_wrapped(inline, cfg, r, args) ==
    IF r.kind = "Ok" THEN r
    ELSE MWrap(write_fmt(r.msg, cfg.buf_size, ctx_pieces(inline, cfg, r, args)),
               r.source)

\* byte_context for Result<T, <alias>Err>
byte_context_wrapped(cfg, r, bytes) ==
    IF r.kind = "Ok" THEN r
    ELSE IF r.msg.curr_pos = 0
    THEN MWrap(extend_from_slice(r.msg, cfg.buf_size, bytes), r.source)
    ELSE LET b1 == extend_from_slice(r.msg, cfg.buf_size, NL)
             b2 == extend_from_slice(b1, cfg.buf_size, cfg.delimiter)
             b3 == extend_from_slice(b2, cfg.buf_size, cfg.msg_prefix)
             b4 == extend_from_slice(b3, cfg.buf_size, bytes)
             b5 == extend_from_slice(b4, cfg.buf_size, cfg.msg_suffix)
         IN  MWrap(b5, r.source)

\* an addition of byte_context for Result<T, <alias>Err> overflows
byte_context_wrapped_overflows(cfg, r, bytes) ==
    /\ r.kind = "Wrap"
    /\ IF r.msg.curr_pos = 0
       THEN extend_overflows(r.msg, cfg.buf_size, bytes)
       ELSE LET b1 == extend_from_slice(r.msg, cfg.buf_size, NL)
                b2 == extend_from_slice(b1, cfg.buf_size, cfg.delimiter)
                b3 == extend_from_slice(b2, cfg.buf_size, cfg.msg_prefix)
                b4 == extend_from_slice(b3, cfg.buf_size, bytes)
            IN  \/ extend_overflows(r.msg, cfg.buf_size, NL)
                \/ extend_overflows(b1, cfg.buf_size, cfg.delimiter)
                \/ extend_overflows(b2, cfg.buf_size, cfg.msg_prefix)
                \/ extend_overflows(b3, cfg.buf_size, bytes)
                \/ extend_overflows(b4, cfg.buf_size, cfg.msg_suffix)

\* context for Result<T, E>
context_raw(cfg, r, msg) ==
    IF r.kind = "Ok" THEN r
    ELSE MWrap(write_fmt(buf_new(cfg.buf_size), cfg.buf_size, <<msg>>),
               enum_from(r.source))

\* with_context for Result<T, E>
with_context_raw(cfg, r, args) ==
    IF r.kind = "Ok" THEN r
    ELSE MWrap(write_fmt(buf_new(cfg.buf_size), cfg.buf_size, args),
               enum_from(r.source))

\* byte_context for Result<T, E>
byte_context_raw(cfg, r, bytes) ==
    IF r.kind = "Ok" THEN r
    ELSE MWrap(extend_from_slice(buf_new(cfg.buf_size), cfg.buf_size, bytes),
               enum_from(r.source))

----------------------------------------------------------------------------
(* #[resext]: the state machine *)

\* the attribute of the macro's tests:
\*   #[resext(alias = Resext delimiter = <9 bytes> buf_size = 24 alloc = true)]
\* the delimiter is a space, a 3-byte and two 2-byte characters, and a space
TestDelimiter == <<32, 226, 128, 154, 195, 179, 195, 168, 32>>
TestAttrs ==
    << Arg("alias", <<82, 101, 115, 101, 120, 116>>),
       Arg("delimiter", TestDelimiter),
       Arg("buf_size", 24),
       Arg("alloc", TRUE) >>

\* the attribute of test_msg_truncation: #[resext(buf_size = 5)]
TruncAttrs == << Arg("buf_size", 5) >>

\* an attribute that sets every text option:
\*   #[resext(prefix = "P:", suffix = "!", msg_prefix = "[", msg_suffix = "]",
\*            delimiter = <U+00E9>, source_prefix = "E:", include_variant = true,
\*            buf_size = 9)]
FullAttrs ==
    << Arg("prefix", <<80, 58>>), Arg("suffix", <<33>>),
       Arg("msg_prefix", <<91>>), Arg("msg_suffix", <<93>>),
       Arg("delimiter", cEacute), Arg("source_prefix", <<69, 58>>),
       Arg("include_variant", TRUE), Arg("buf_size", 9) >>

\* the attribute of the crate documentation:
\*   #[resext(prefix = "ERROR: ", msg_delimiter = " -> ",
\*            include_variant = true, alias = AppResult)]
nAppResult == <<65, 112, 112, 82, 101, 115, 117, 108, 116>>
DocDelimiter == <<32, 45, 62, 32>>
DocPrefix == <<69, 82, 82, 79, 82, 58, 32>>
DocAttrs ==
    << Arg("prefix", DocPrefix),
       Arg("msg_delimiter", DocDelimiter),
       Arg("include_variant", TRUE),
       Arg("alias", nAppResult) >>

\* its prefix and alias alone:
\*   #[resext(prefix = "ERROR: ", alias = AppResult)]
AliasAttrs == << Arg("prefix", DocPrefix), Arg("alias", nAppResult) >>

AttrChoices == { <<>>, TestAttrs, TruncAttrs, FullAttrs, DocAttrs, AliasAttrs }

\* the context string of test_msg_truncation, as the test file has it
GoodText ==
    << <<71>>, <<111>>, <<111>>, <<100>>, <<239, 163, 191>>, <<195, 188>>,
       <<195, 173>>, <<195, 177>> >>

\* inputs: texts as sequences of characters, and the pieces of a
\* format_args! as sequences of texts
MacroTexts == { <<>>, <<cA>>, <<cEacute, cB>>, GoodText }
MacroArgs  == { << <<cA, cB>> >>, << <<cA>>, <<cEuro>>, <<cB>> >> }

RECURSIVE pieces_bytes(_)
pieces_bytes(args) ==
    IF args = <<>> THEN <<>> ELSE <<as_bytes(Head(args))>> \o pieces_bytes(Tail(args))

\* the write_str calls of one write!, for each the string, the capacity left
\* before the call and the bytes the call stored
RECURSIVE write_log(_, _, _)
write_log(b, size, pieces) ==
    IF pieces = <<>> THEN <<>>
    ELSE LET b2 == write_str(b, size, Head(pieces))
         IN  << [s |-> Head(pieces), r |-> size - b.curr_pos,
                 stored |-> SubSeq(b2.buf, b.curr_pos + 1, b2.curr_pos)] >>
             \o write_log(b2, size, Tail(pieces))

\* how the result was built ("raw": a plain Result<T, E>; "new"; "from"), its
\* static type, the messages given to it in order (the one given to new, then
\* those of the context calls) and the write_str calls of the last operation
MHist(origin, wrapped, added, writes) ==
    [origin |-> origin, wrapped |-> wrapped, added |-> added, writes |-> writes]

TraitIdle ==
    /\ res = [kind |-> "none"]
    /\ hist = Hist("none", FALSE, <<>>)
    /\ shown = NoShow
    /\ proc = Proc0

InitMacro ==
    /\ attrs \in AttrChoices
    /\ build \in {"inline", "pieces"}
    /\ IF ~Cfg.ok
       THEN \* the expansion is a compile error: there is no generated code
            mres = [kind |-> "none"] /\ mhist = MHist("none", FALSE, <<>>, <<>>)
       ELSE \/ \E v \in Values, w \in BOOLEAN :
                 mres = MOk(v) /\ mhist = MHist("raw", w, <<>>, <<>>)
            \/ \E e \in RawErrs :
                 mres = MErr(e) /\ mhist = MHist("raw", FALSE, <<>>, <<>>)
            \/ \E e \in RawErrs, t \in MacroTexts :
                 /\ mres = wrapper_new(Cfg, as_bytes(t), e)
                 /\ mhist = MHist("new", TRUE, <<as_bytes(t)>>,
                                  write_log(buf_new(Cfg.buf_size), Cfg.buf_size,
                                            <<as_bytes(t)>>))
            \/ \E e \in RawErrs :
                 mres = wrapper_from(Cfg, e) /\ mhist = MHist("from", TRUE, <<>>, <<>>)
            \/ /\ mres = wrapper_from_enum(Cfg, UnitVal)
               /\ mhist = MHist("from", TRUE, <<>>, <<>>)
    /\ mshown = NoShow
    /\ TraitIdle
    /\ DeclIdle

CanCall == mres.kind \notin {"none", "Panic"} /\ Len(mhist.added) < MaxCtx

\* the write_str calls a context or with_context call makes
CallLog(pieces) ==
    IF mres.kind = "Ok" THEN <<>>
    ELSE IF mhist.wrapped
    THEN write_log(mres.msg, Cfg.buf_size, ctx_pieces(build, Cfg, mres, pieces))
    ELSE write_log(buf_new(Cfg.buf_size), Cfg.buf_size, pieces)

\* r.context(msg)
MContext(t) ==
    /\ CanCall
    /\ mres' = IF mhist.wrapped THEN context_wrapped(build, Cfg, mres, as_bytes(t))
               ELSE context_raw(Cfg, mres, as_bytes(t))
    /\ mhist' = MHist(mhist.origin, TRUE, Append(mhist.added, as_bytes(t)),
                      CallLog(<<as_bytes(t)>>))
    /\ mshown' = NoShow
    /\ UNCHANGED <<attrs, build>>
    /\ UNCHANGED <<traitVars, declVars>>

\* r.with_context(format_args!(...))
MWithContext(a) ==
    /\ CanCall
    /\ mres' = IF mhist.wrapped
               THEN with_context_wrapped(build, Cfg, mres, pieces_bytes(a))
               ELSE with_context_raw(Cfg, mres, pieces_bytes(a))
    /\ mhist' = MHist(mhist.origin, TRUE,
                      Append(mhist.added, as_bytes(pieces_bytes(a))),
                      CallLog(pieces_bytes(a)))
    /\ mshown' = NoShow
    /\ UNCHANGED <<attrs, build>>
    /\ UNCHANGED <<traitVars, declVars>>

\* r.byte_context(bytes)
MByteContext(t) ==
    /\ CanCall
    /\ \/ mres' = IF mhist.wrapped THEN byte_context_wrapped(Cfg, mres, as_bytes(t))
                  ELSE byte_context_raw(Cfg, mres, as_bytes(t))
       \/ /\ mhist.wrapped
          /\ byte_context_wrapped_overflows(Cfg, mres, as_bytes(t))
          /\ mres' = MPanic
    /\ mhist' = MHist(mhist.origin, TRUE, Append(mhist.added, as_bytes(t)), <<>>)
    /\ mshown' = NoShow
    /\ UNCHANGED <<attrs, build>>
    /\ UNCHANGED <<traitVars, declVars>>

\* format_args!("{}", err).to_string() of the wrapper inside an Err
MDisplay ==
    /\ mres.kind = "Wrap"
    /\ ~mshown.valid
    /\ mshown' = [valid |-> TRUE, text |-> wrapper_fmt(Cfg, mres)]
    /\ UNCHANGED <<attrs, build, mres, mhist>>
    /\ UNCHANGED <<traitVars, declVars>>

NextMacro ==
    \/ \E t \in MacroTexts : MContext(t)
    \/ \E a \in MacroArgs : MWithContext(a)
    \/ \E t \in MacroTexts : MByteContext(t)
    \/ MDisplay

SpecMacro == InitMacro /\ [][NextMacro]_vars

----------------------------------------------------------------------------
(* #[resext]: a buffer larger than the range of its position *)

\* #[resext(buf_size = 65536)]
WideAttrs == << Arg("buf_size", 65536) >>

\* byte strings given to byte_context: one byte, one less than the buffer
\* holds, and as many as it holds
WideTexts ==
    { <<cA>>, << [i \in 1..65535 |-> 97] >>, << [i \in 1..65536 |-> 97] >> }

InitWide ==
    /\ attrs = WideAttrs
    /\ build = "pieces"
    /\ \E e \in RawErrs :
         mres = wrapper_from(Cfg, e) /\ mhist = MHist("from", TRUE, <<>>, <<>>)
    /\ mshown = NoShow
    /\ TraitIdle
    /\ DeclIdle

NextWide ==
    \/ \E t \in WideTexts : MByteContext(t)
    \/ MDisplay

SpecWide == InitWide /\ [][NextWide]_vars

----------------------------------------------------------------------------
(* ResExt!: the buffer and the context methods of the declarative macro *)

\* ResBuf::new, get_slice and extend_from_slice have the code of the buffer
\* the attribute macro generates: buf_new, get_slice and extend_from_slice
\* above stand for them too.  write_str differs in one comparison.

\* the outcome of a write: the buffer after it, or a panic (an index past the
\* end of the array) that leaves the buffer as it was
Wrote(b)    == [panic |-> FALSE, b |-> b]
Panicked(b) == [panic |-> TRUE, b |-> b]

\* the number of bytes ResBuf's write_str copies: the width of the last
\* character is tested against bytes.len()
decl_write_to_copy(b, size, bytes) ==
    LET pos   == b.curr_pos
        cap   == size - pos
        start_of_last_char == rposition(bytes, Min(Len(bytes), cap))
    IN  IF start_of_last_char = -1 THEN 0
        ELSE LET width == char_width(bytes[start_of_last_char + 1])
             IN  IF start_of_last_char + width <= Len(bytes)
                 THEN start_of_last_char + width
                 ELSE start_of_last_char

\* core::fmt::Write for ResBuf: self.buf[pos..pos + to_copy] panics when
\* pos + to_copy is past the end of the array
decl_write_str(b, size, s) ==
    LET to_copy == decl_write_to_copy(b, size, s)
    IN  IF b.curr_pos + to_copy > size THEN Panicked(b)
        ELSE Wrote(copy_in(b, s, to_copy))

\* write!(err, ...): one write_str for each piece, until one panics
RECURSIVE decl_write_fmt(_, _, _)
decl_write_fmt(b, size, pieces) ==
    IF pieces = <<>> THEN Wrote(b)
    ELSE LET w == decl_write_str(b, size, Head(pieces))
         IN  IF w.panic THEN w ELSE decl_write_fmt(w.b, size, Tail(pieces))

\* the write_str calls of one write!: for each the string, the capacity left
\* before the call and the number of bytes the call set out to copy
RECURSIVE decl_write_log(_, _, _)
decl_write_log(b, size, pieces) ==
    IF pieces = <<>> THEN <<>>
    ELSE LET w == decl_write_str(b, size, Head(pieces))
         IN  << [s |-> Head(pieces), r |-> size - b.curr_pos,
                 to_copy |-> decl_write_to_copy(b, size, Head(pieces))] >>
             \o (IF w.panic THEN <<>> ELSE decl_write_log(w.b, size, Tail(pieces)))

\* the results of the declarative variant; a panic unwinds out of the call,
\* no result is left
DOk(v)          == [kind |-> "Ok", val |-> v]
DErr(e)         == [kind |-> "Err", source |-> e]
DWrap(msg, src) == [kind |-> "Wrap", msg |-> msg, source |-> src]
DPanic          == [kind |-> "Panic"]

\* From<field type> for the enum: the variant Io(std::io::Error)
decl_enum_from(e) == [variant |-> "Io", inner |-> e]

\* ResErr::new(msg, source)
decl_new(size, msg, source) ==
    DWrap(extend_from_slice(buf_new(size), size, msg), decl_enum_from(source))

\* From<the enum> for ResErr
decl_from(size, value) == DWrap(buf_new(size), value)

DeclDelim == <<10, 32, 45, 32>>                \* "\n - "

\* the pieces context and with_context write on Result<T, ResErr>
decl_pieces(r, msg_pieces) ==
    IF r.msg.curr_pos = 0 THEN msg_pieces ELSE <<DeclDelim>> \o msg_pieces

\* a ResErr with the buffer a write! left, or the panic
decl_written(w, source) == IF w.panic THEN DPanic ELSE DWrap(w.b, source)

\* context and with_context for Result<T, ResErr>: args is the sequence of
\* the pieces of the message
decl_context_wrapped(size, r, args) ==
    IF r.kind = "Ok" THEN r
    ELSE decl_written(decl_write_fmt(r.msg, size, decl_pieces(r, args)), r.source)

\* byte_context for Result<T, ResErr>
decl_byte_context_wrapped(size, r, bytes) ==
    IF r.kind = "Ok" THEN r
    ELSE IF r.msg.curr_pos = 0
    THEN DWrap(extend_from_slice(r.msg, size, bytes), r.source)
    ELSE DWrap(extend_from_slice(extend_from_slice(r.msg, size, DeclDelim), size, bytes),
               r.source)

\* context and byte_context for Result<T, E>
decl_context_raw(size, r, bytes) ==
    IF r.kind = "Ok" THEN r
    ELSE DWrap(extend_from_slice(buf_new(size), size, bytes), decl_enum_from(r.source))

\* with_context for Result<T, E>: the wrapper starts from ResErr::new(&[0u8], err)
decl_with_context_raw(size, r, args) ==
    IF r.kind = "Ok" THEN r
    ELSE LET w0 == decl_new(size, <<0>>, r.source)
         IN  decl_written(decl_write_fmt(w0.msg, size, args), w0.source)

\* the write_str calls a context or with_context call makes
DeclLog(size, r, args) ==
    IF r.kind = "Ok" THEN <<>>
    ELSE IF r.kind = "Wrap"
    THEN decl_write_log(r.msg, size, decl_pieces(r, args))
    ELSE decl_write_log(decl_new(size, <<0>>, r.source).msg, size, args)

\* buffer sizes: one the context string of test_msg_truncation does not fit,
\* one it fits once, and the default
DeclSizes == {5, 16, 94}
DeclTexts == { <<cA>>, GoodText }
DeclArgs  == { << <<cA>>, <<cEuro>>, <<cB>> >> }

InitDecl ==
    /\ \E size \in DeclSizes :
         \E r \in {DOk("v"), DErr("io"),
                   decl_from(size, decl_enum_from("io"))}
                  \cup {decl_new(size, as_bytes(t), "io") : t \in DeclTexts} :
            decl = [size |-> size, res |-> r, added |-> 0, writes |-> <<>>]
    /\ TraitIdle
    /\ MacroIdle

DeclCanCall ==
    /\ decl.res.kind \in {"Ok", "Err", "Wrap"}
    /\ decl.added < MaxCtx

\* r.context(msg)
DContext(t) ==
    /\ DeclCanCall
    /\ decl' = [decl EXCEPT
                  !.res = IF decl.res.kind = "Err"
                          THEN decl_context_raw(decl.size, decl.res, as_bytes(t))
                          ELSE decl_context_wrapped(decl.size, decl.res, <<as_bytes(t)>>),
                  !.added = @ + 1,
                  !.writes = IF decl.res.kind = "Wrap"
                             THEN DeclLog(decl.size, decl.res, <<as_bytes(t)>>)
                             ELSE <<>>]
    /\ UNCHANGED <<traitVars, macroVars>>

\* r.with_context(format_args!(...))
DWithContext(a) ==
    /\ DeclCanCall
    /\ decl' = [decl EXCEPT
                  !.res = IF decl.res.kind = "Err"
                          THEN decl_with_context_raw(decl.size, decl.res, pieces_bytes(a))
                          ELSE decl_context_wrapped(decl.size, decl.res, pieces_bytes(a)),
                  !.added = @ + 1,
                  !.writes = DeclLog(decl.size, decl.res, pieces_bytes(a))]
    /\ UNCHANGED <<traitVars, macroVars>>

\* r.byte_context(bytes)
DByteContext(t) ==
    /\ DeclCanCall
    /\ decl' = [decl EXCEPT
                  !.res = IF decl.res.kind = "Err"
                          THEN decl_context_raw(decl.size, decl.res, as_bytes(t))
                          ELSE decl_byte_context_wrapped(decl.size, decl.res, as_bytes(t)),
                  !.added = @ + 1,
                  !.writes = <<>>]
    /\ UNCHANGED <<traitVars, macroVars>>

NextDecl ==
    \/ \E t \in DeclTexts : DContext(t)
    \/ \E a \in DeclArgs : DWithContext(a)
    \/ \E t \in DeclTexts : DByteContext(t)

SpecDecl == InitDecl /\ [][NextDecl]_vars

----------------------------------------------------------------------------
(* Claims about the trait-based crate *)

\* a chain that started on a plain Err(e) and has had n >= 1 context calls
RawChain == res.kind = "ErrCtx" /\ hist.origin = "raw"

\* C1: for a source error e and n >= 1 context additions m1..mn applied to
\* Err(e), the message is m1 + "\n- " + m2 + ... + "\n- " + mn: the contexts
\* are in the order they were added, most recent last, none dropped.
C1_ContextOrder ==
    RawChain => ErrCtx_msg(res) = JoinWith(hist.added, DashDelim)

C1_Witness ==
    /\ RawChain
    /\ Len(hist.added) = 3
    /\ hist.added[1] = <<97>>
    /\ hist.added[2] = <<195, 169>>
    /\ hist.added[3] = <<45, 32>>
    /\ ErrCtx_msg(res) = <<97, 10, 45, 32, 195, 169, 10, 45, 32, 45, 32>>

\* C7: after n >= 1 context calls on an error, with messages that do not
\* contain "\n- ", the message has exactly n - 1 occurrences of "\n- " and
\* contains every one of the n messages.
C7_DelimiterCount ==
    (RawChain /\ \A i \in 1..Len(hist.added) : ~Contains(hist.added[i], DashDelim))
        => /\ MatchCount(ErrCtx_msg(res), DashDelim) = Len(hist.added) - 1
           /\ \A i \in 1..Len(hist.added) : Contains(ErrCtx_msg(res), hist.added[i])

C7_Witness ==
    /\ RawChain
    /\ Len(hist.added) = 3
    /\ hist.added[1] = <<10, 45>>
    /\ hist.added[2] = <<>>
    /\ hist.added[3] = <<45, 32>>
    /\ MatchCount(ErrCtx_msg(res), DashDelim) = 2

\* C8: an ErrCtx whose message is empty displays exactly as its source error
\* displays, with no "\n- " and no "Caused by:" in the output.
C8_EmptyCtxDisplay ==
    (shown.valid /\ res.kind = "ErrCtx" /\ ErrCtx_msg(res) = <<>>)
        => /\ shown.text = ErrDisplay(ErrCtx_source(res))
           /\ ~Contains(shown.text, DashDelim)
           /\ ~Contains(shown.text, SubSeq(CausedBy, 2, 11))

C8_Witness ==
    /\ shown.valid
    /\ res.kind = "ErrCtx"
    /\ ErrCtx_msg(res) = <<>>
    /\ hist.origin = "new"
    /\ shown.text = <<73, 47, 79>>

----------------------------------------------------------------------------
(* Claims about the code #[resext] generates *)

\* the forward reading of UTF-8: the length of a character from its first byte
Utf8Len(lead) ==
    IF lead < 128 THEN 1 ELSE IF lead < 224 THEN 2 ELSE IF lead < 240 THEN 3 ELSE 4

\* the offsets of s at which a character ends (0 included)
RECURSIVE CharEndsFrom(_, _)
CharEndsFrom(s, k) ==
    IF k >= Len(s) THEN {k} ELSE {k} \cup CharEndsFrom(s, k + Utf8Len(s[k + 1]))

\* the longest prefix of s made of whole characters and at most r bytes long
WholeCharPrefix(s, r) ==
    LET ends == {k \in CharEndsFrom(s, 0) : k <= r /\ k <= Len(s)}
        best == CHOOSE k \in ends : \A j \in ends : j <= k
    IN  SubSeq(s, 1, best)

\* C2: write_str of a valid UTF-8 string s with r bytes of capacity left
\* stores exactly the longest prefix of s that is made of whole characters
\* and is at most r bytes long.
C2_WholeCharTruncation ==
    \A i \in 1..Len(mhist.writes) :
        mhist.writes[i].stored = WholeCharPrefix(mhist.writes[i].s, mhist.writes[i].r)

\* "Good" and a 3-byte character written with 5 bytes left: "Good" is stored
C2_Witness ==
    \E i \in 1..Len(mhist.writes) :
        /\ mhist.writes[i].s = as_bytes(GoodText)
        /\ mhist.writes[i].r = 5
        /\ mhist.writes[i].stored = <<71, 111, 111, 100>>

ErrorColon == <<69, 114, 114, 111, 114, 58, 32>>    \* "Error: "

\* what "<source>" is with the default options: the inner error of a variant
\* with a field, the name of a unit variant
PlainSource(src) == IF src.kind = "unit" THEN src.variant ELSE src.inner

\* C3: Display of a wrapper whose context buffer is not empty is prefix +
\* stored context + "\n" + source_prefix + Display of the source + suffix;
\* with the default options it is "<context>\nError: <source>".
C3_DisplayWithContext ==
    (mshown.valid /\ mres.kind = "Wrap" /\ get_slice(mres.msg) # <<>>)
        => /\ mshown.text = Cfg.prefix \o get_slice(mres.msg) \o <<10>>
                              \o Cfg.source_prefix \o enum_fmt(Cfg, mres.source)
                              \o Cfg.suffix
           /\ attrs = <<>> =>
                mshown.text = get_slice(mres.msg) \o <<10>> \o ErrorColon
                                \o PlainSource(mres.source)

\* new("a", 404) with the default options displays as "a\nError: 404"
C3_Witness ==
    /\ mshown.valid
    /\ attrs = <<>>
    /\ mhist.origin = "new"
    /\ mhist.added = << <<97>> >>
    /\ mshown.text = <<97, 10, 69, 114, 114, 111, 114, 58, 32, 52, 48, 52>>

\* no context has been stored: the wrapper comes from new or From and every
\* message given to it was empty
NoContext ==
    /\ mres.kind = "Wrap"
    /\ mhist.origin \in {"new", "from"}
    /\ \A i \in 1..Len(mhist.added) : mhist.added[i] = <<>>

C5_TestAttrsKeepWholeMessage ==
    attrs = TestAttrs
        => /\ Cfg.ok
           /\ (mres.kind = "Wrap" /\ Len(mhist.added) >= 1)
                => IsPrefix(mhist.added[1], get_slice(mres.msg))

\* m1 followed, for each later mi, by "\n" + delimiter + msg_prefix + mi + msg_suffix
RECURSIVE LaterContexts(_, _)
LaterContexts(cfg, ms) ==
    IF ms = <<>> THEN <<>>
    ELSE <<10>> \o cfg.delimiter \o cfg.msg_prefix \o Head(ms) \o cfg.msg_suffix
           \o LaterContexts(cfg, Tail(ms))
ChainLayout(cfg, ms) == Head(ms) \o LaterContexts(cfg, Tail(ms))

\* a chain of n >= 1 context calls on an error that had no context
ContextChain ==
    /\ mres.kind = "Wrap"
    /\ mhist.origin \in {"raw", "from"}
    /\ Len(mhist.added) >= 1

\* a chain whose layout fits in the buffer
ChainFits ==
    /\ ContextChain
    /\ Len(ChainLayout(Cfg, mhist.added)) <= Cfg.buf_size

C9_PrefixOnEveryMessage ==
    mshown.valid => /\ IsPrefix(Cfg.prefix, mshown.text)
                    /\ IsSuffix(Cfg.suffix, mshown.text)

\* every context message between msg_prefix and msg_suffix, the first included
RECURSIVE Decorated(_, _)
Decorated(cfg, ms) ==
    IF ms = <<>> THEN <<>>
    ELSE <<cfg.msg_prefix \o Head(ms) \o cfg.msg_suffix>> \o Decorated(cfg, Tail(ms))
DecoratedLayout(cfg, ms) == JoinWith(Decorated(cfg, ms), <<10>> \o cfg.delimiter)

\* C10: msg_prefix and msg_suffix are applied to each context message: in the
\* stored chain every message, the first one included, is immediately
\* preceded by msg_prefix and immediately followed by msg_suffix.
C10_EveryMessageDecorated ==
    (/\ ContextChain
     /\ mhist.added[1] # <<>>
     /\ Len(DecoratedLayout(Cfg, mhist.added)) <= Cfg.buf_size)
        => get_slice(mres.msg) = DecoratedLayout(Cfg, mhist.added)

----------------------------------------------------------------------------
(* The attribute options *)

\* C11: the attribute of the crate documentation, which names the separator
\* option msg_delimiter, is accepted by the attribute parser and makes " -> "
\* the separator between context messages.
C11_MsgDelimiterAccepted ==
    attrs = DocAttrs => Cfg.ok /\ Cfg.delimiter = DocDelimiter

\* the value the attribute gives to an option: that of the last argument with
\* this key, the option's documented default without one
Given(key, dflt) ==
    LET at == { i \in 1..Len(attrs) : attrs[i].key = key }
    IN  IF at = {} THEN dflt
        ELSE attrs[CHOOSE i \in at : \A j \in at : j <= i].val

\* C12: in generated code each option has the value its own argument gives, and
\* without that argument its default: delimiter " - ", source_prefix
\* "Error: ", empty prefix, suffix, msg_prefix and msg_suffix, include_variant
\* false, alias Res; the wrapper type is named <alias>Err.
C12_Defaults ==
    Cfg.ok =>
        /\ Cfg.delimiter = Given("delimiter", <<32, 45, 32>>)
        /\ Cfg.source_prefix = Given("source_prefix", <<69, 114, 114, 111, 114, 58, 32>>)
        /\ Cfg.prefix = Given("prefix", <<>>)
        /\ Cfg.suffix = Given("suffix", <<>>)
        /\ Cfg.msg_prefix = Given("msg_prefix", <<>>)
        /\ Cfg.msg_suffix = Given("msg_suffix", <<>>)
        /\ Cfg.include_variant = Given("include_variant", FALSE)
        /\ Cfg.alias = Given("alias", <<82, 101, 115>>)
        /\ Cfg.struct_name = Cfg.alias \o <<69, 114, 114>>

\* an attribute with a prefix and an alias names the wrapper AppResultErr, and
\* two contexts on an error are stored with a line break and " - " between
\* them and shown after the prefix and above "Error: " and the source
C12_Witness ==
    /\ attrs = AliasAttrs
    /\ Cfg.struct_name = nAppResult \o <<69, 114, 114>>
    /\ mres.kind = "Wrap"
    /\ mhist.added = <<cA, cA>>
    /\ get_slice(mres.msg) = cA \o NL \o <<32, 45, 32>> \o cA
    /\ mshown.valid
    /\ mshown.text = DocPrefix \o cA \o NL \o <<32, 45, 32>> \o cA \o NL
                        \o <<69, 114, 114, 111, 114, 58, 32>>
                        \o enum_fmt(Cfg, mres.source)

\* the Display of a wrapper ends with the source prefix, this source part and
\* the suffix
EndsWithSource(part) ==
    IsSuffix(Cfg.source_prefix \o part \o Cfg.suffix, mshown.text)

\* C13 as stated: the source part is "<variant>: <inner error>" with
\* include_variant, the inner error alone without it, and the variant name for
\* a unit variant.
C13_Claimed ==
    mshown.valid =>
        LET src == mres.source
        IN  EndsWithSource(IF src.kind = "unit" THEN src.variant
                           ELSE IF Cfg.include_variant
                           THEN src.variant \o <<58, 32>> \o src.inner
                           ELSE src.inner)

\* C13: with include_variant the source part is "<variant>: <inner error>" for
\* a tuple variant and "<variant>: <field>: <inner error>" for a variant with a
\* named field; without it, it is the inner error alone; a unit variant shows
\* as its variant name in both cases.
C13_SourcePart ==
    mshown.valid =>
        LET src == mres.source
        IN  EndsWithSource(
                IF src.kind = "unit" THEN src.variant
                ELSE IF ~Cfg.include_variant THEN src.inner
                ELSE IF src.kind = "named"
                THEN src.variant \o <<58, 32>> \o src.field \o <<58, 32>> \o src.inner
                ELSE src.variant \o <<58, 32>> \o src.inner)

\* a wrapper around the named-field variant is displayed with include_variant
C13_Witness ==
    /\ Cfg.ok /\ Cfg.include_variant
    /\ mshown.valid
    /\ mres.source.kind = "named"
    /\ Len(mhist.added) > 0

----------------------------------------------------------------------------
(* Results that are Ok, closures, and the helpers that end the process *)

C15_OkUntouched ==
    [][/\ mres.kind = "Ok" => mres' = mres /\ mhist'.writes = <<>>
       /\ res.kind = "Ok" => res' = res]_vars

\* three context calls were made on Ok("w")
C15_Witness ==
    /\ mres = MOk("w")
    /\ Len(mhist.added) >= 3

\* C16: after r.or_exit(code), if r is Ok(v) the call has returned v and the
\* process has not exited; if r is an Err the process has exited with code
\* and the call has not returned; nothing was printed in either case.
C16_OrExit ==
    proc.call.op = "or_exit" =>
        /\ proc.stderr = <<>>
        /\ IF res.kind = "Ok"
           THEN proc.state = "returned" /\ proc.ret = res.val
           ELSE proc.state = "exited" /\ proc.code = proc.call.code

\* or_exit(1) was called on an Err that has a context
C16_Witness ==
    /\ proc.call.op = "or_exit"
    /\ proc.call.code = 1
    /\ res.kind = "ErrCtx"
    /\ Len(hist.added) > 0
    /\ proc.state = "exited"

\* C17: after better_expect or dyn_expect, if r is Ok(v) the call has returned
\* v, nothing was printed and the process has not exited; if r is Err(e) the
\* process has exited with the given code and stderr holds one line: the
\* message, followed by ": " and e's Display exactly when verbose is true.
C17_Expect ==
    proc.call.op \in {"better_expect", "dyn_expect"} =>
        IF res.kind = "Ok"
        THEN proc.state = "returned" /\ proc.ret = res.val /\ proc.stderr = <<>>
        ELSE /\ proc.state = "exited"
             /\ proc.code = proc.call.code
             /\ proc.stderr =
                    proc.call.msg
                    \o (IF proc.call.verbose
                        THEN <<58, 32>>
                             \o (IF res.kind = "ErrCtx" THEN ErrCtx_fmt(res)
                                 ELSE ErrDisplay(res.source))
                        ELSE <<>>)
                    \o <<10>>

\* better_expect was called without verbose on an Err with a context
C17_Witness ==
    /\ proc.call.op = "better_expect"
    /\ ~proc.call.verbose
    /\ res.kind = "ErrCtx"
    /\ Len(hist.added) > 0
    /\ proc.state = "exited"
    /\ proc.stderr = proc.call.msg \o <<10>>

\* C18: after panic_if!(condition, msg, code), if the condition is true stderr
\* holds msg and a line break and the process has exited with code; if it is
\* false nothing was printed, no message expression was evaluated and the
\* process runs on.
C18_PanicIf ==
    proc.call.op = "panic_if" =>
        IF proc.call.condition
        THEN /\ proc.state = "exited"
             /\ proc.code = proc.call.code
             /\ proc.stderr = proc.call.msg \o <<10>>
        ELSE /\ proc.state = "running"
             /\ proc.stderr = <<>>
             /\ proc.evals = 0

\* panic_if! with a false condition, and a context call made after it
C18_Witness ==
    /\ proc.call.op = "panic_if"
    /\ ~proc.call.condition
    /\ Len(hist.added) > 0
    /\ res.kind = "ErrCtx"

\* C19: return_err_if!(condition, msg, source) is Ok(()) exactly when the
\* condition is false; otherwise it is the Err of an ErrCtx whose message is
\* the bytes of msg and whose source is source.
C19_ReturnErrIf ==
    (proc.call.op = "return_err_if" /\ hist.added = <<>>) =>
        /\ (res = OkRes("()")) <=> ~proc.call.condition
        /\ proc.call.condition =>
               /\ res.kind = "ErrCtx"
               /\ ErrCtx_msg(res) = proc.call.msg
               /\ ErrCtx_source(res) = proc.call.source

\* return_err_if! with a true condition and a two-character message
C19_Witness ==
    /\ proc.call.op = "return_err_if"
    /\ hist.added = <<>>
    /\ proc.call.condition
    /\ res.kind = "ErrCtx"
    /\ proc.call.msg = <<195, 169, 98>>

\* C20: every context, with_context and byte_context call on an error leaves
\* its source as it was: the ErrCtx made from Err(e) has the source e, and
\* ErrCtx::source() of an ErrCtx gives the same source after the call as
\* before; so does the wrapper of the generated code.
C20_SourceKept ==
    [][/\ res.kind = "Err" => res'.kind = "ErrCtx" /\ ErrCtx_source(res') = res.source
       /\ res.kind = "ErrCtx" => res'.kind = "ErrCtx" /\ ErrCtx_source(res') = ErrCtx_source(res)
       /\ mres.kind = "Wrap" => mres'.kind = "Wrap" /\ mres'.source = mres.source]_vars

\* an ErrCtx with the source "host" after three context calls
C20_Witness ==
    /\ res.kind = "ErrCtx"
    /\ ErrCtx_source(res) = "host"
    /\ Len(hist.added) = 3

----------------------------------------------------------------------------
(* The three context calls of the trait-based crate *)

\* C21: whichever of context, with_context and byte_context adds the text m
\* to a result, raw or wrapped, the result it gives has the message and the
\* source that context(m) gives: an Ok stays as it is, an error gets the same
\* message bytes and the same source.
C21_SameAsContext ==
    [][Len(hist'.added) = Len(hist.added) + 1 =>
          LET m == hist'.added[Len(hist'.added)]
              c == IF hist.wrapped THEN extra_ctx_impl(res, m)
                   ELSE new_context_impl(res, m)
          IN  IF res.kind = "Ok" THEN res' = c
              ELSE /\ res'.kind = "ErrCtx"
                   /\ ErrCtx_msg(res') = ErrCtx_msg(c)
                   /\ ErrCtx_source(res') = ErrCtx_source(c)]_vars

\* an error that got three contexts, one of them by with_context
C21_Witness ==
    /\ res.kind = "ErrCtx"
    /\ Len(hist.added) = 3
    /\ proc.evals = 1
    /\ ErrCtx_msg(res) = <<97, 10, 45, 32, 195, 169, 10, 45, 32, 97>>

----------------------------------------------------------------------------
(* The buffer of the declarative macro *)

\* C22: no write_str call of the declarative buffer sets out to copy more
\* bytes than the capacity left, and no context call panics on an index past
\* the end of the buffer.
C22_WriteWithinCapacity ==
    /\ decl.res.kind # "Panic"
    /\ \A i \in 1..Len(decl.writes) : decl.writes[i].to_copy <= decl.writes[i].r

----------------------------------------------------------------------------
(* The position of the generated buffer *)

\* C23: with buf_size at most 65535 the position of the buffer of a wrapper
\* is between 0 and buf_size, the array has buf_size bytes, and every
\* write_str call of the last operation started inside the buffer and copied
\* no more bytes than were left: buf[pos..pos + to_copy] and buf[..curr_pos]
\* lie inside the buffer.
C23_PositionInBuffer ==
    (mres.kind = "Wrap" /\ Cfg.buf_size <= 65535) =>
        /\ mres.msg.curr_pos >= 0
        /\ mres.msg.curr_pos <= Cfg.buf_size
        /\ Len(mres.msg.buf) = Cfg.buf_size
        /\ \A i \in 1..Len(mhist.writes) :
              LET w == mhist.writes[i]
              IN  /\ w.r >= 0 /\ w.r <= Cfg.buf_size
                  /\ write_to_copy([curr_pos |-> Cfg.buf_size - w.r],
                                   Cfg.buf_size, w.s) <= w.r

\* a buffer of 5 bytes is full, and the last call made a write_str with no
\* capacity left
C23_Witness ==
    /\ attrs = TruncAttrs
    /\ mres.kind = "Wrap"
    /\ mres.msg.curr_pos = 5
    /\ Len(mhist.added) >= 2
    /\ \E i \in 1..Len(mhist.writes) :
          mhist.writes[i].r = 0 /\ mhist.writes[i].s # <<>>

\* the bytes one byte_context call copies into the buffer of a wrapper
ByteContextCopied(cfg, r, bytes) ==
    LET n(b, x) == Min(cfg.buf_size - b.curr_pos, Len(x))
    IN  IF r.msg.curr_pos = 0 THEN n(r.msg, bytes)
        ELSE LET b1 == extend_from_slice(r.msg, cfg.buf_size, NL)
                 b2 == extend_from_slice(b1, cfg.buf_size, cfg.delimiter)
                 b3 == extend_from_slice(b2, cfg.buf_size, cfg.msg_prefix)
                 b4 == extend_from_slice(b3, cfg.buf_size, bytes)
             IN  n(r.msg, NL) + n(b1, cfg.delimiter) + n(b2, cfg.msg_prefix)
                     + n(b3, bytes) + n(b4, cfg.msg_suffix)

\* C24: for every buf_size the position counts the bytes copied: a
\* byte_context call on a wrapper that returns moves curr_pos forward by the
\* number of bytes it copied into the buffer, so that stored bytes never
\* leave curr_pos at 0.
C24_PositionCountsBytes ==
    [][(/\ mres.kind = "Wrap" /\ mres'.kind = "Wrap"
        /\ Len(mhist'.added) = Len(mhist.added) + 1
        /\ mhist'.writes = <<>>)
         => mres'.msg.curr_pos
              = mres.msg.curr_pos
                  + ByteContextCopied(Cfg, mres, mhist'.added[Len(mhist'.added)])]_vars

\* C25: a context call on a wrapper only appends, whatever the buffer size:
\* the bytes stored before the call are a prefix of the bytes stored after
\* it, and a call on a full buffer leaves the buffer and curr_pos as they
\* were.
C25_AppendOnly ==
    [][(/\ mres.kind = "Wrap" /\ mres'.kind = "Wrap"
        /\ Len(mhist'.added) = Len(mhist.added) + 1)
         => /\ IsPrefix(get_slice(mres.msg), get_slice(mres'.msg))
            /\ mres.msg.curr_pos = Cfg.buf_size => mres'.msg = mres.msg]_vars

\* C26: adding a context m to an ErrCtx whose message is empty gives the
\* message m, with no "\n- " in front of it.
C26_EmptyMessageNoDelimiter ==
    [][(/\ res.kind = "ErrCtx" /\ ErrCtx_msg(res) = <<>>
        /\ res'.kind = "ErrCtx"
        /\ Len(hist'.added) = Len(hist.added) + 1)
         => ErrCtx_msg(res') = hist'.added[Len(hist'.added)]]_vars

====
